---- MODULE Spec2Model ----
(***************************************************************************)
(* Model of the Cluster graph contract (cluster/src/lib.rs): a keyed store *)
(* (Mappable, here the HashMap implementation) whose values are nodes that *)
(* expose an adjacency list (Node), and the default edge operations of the *)
(* Cluster trait layered over it.                                          *)
(***************************************************************************)
EXTENDS Naturals, Sequences, FiniteSets

\* ------------------------------------------------------------------ bounds
\* Keys are 1..MaxKey.
MaxKey == 2
\* Largest total number of adjacency entries held by the whole store.
MaxEdges == 3

Keys == 1..MaxKey

\* ------------------------------------------------------- error conditions
\* The two MissingNode errors, told apart by their detail string.
ErrAddEdge == "To add edge, both node must exists in the Cluster."
ErrRemoveEdge == "<src> node does not exists."

\* ------------------------------------------------------------- the state
VARIABLES
    store,   \* the Mappable: a function from the keys in use to their nodes
    pre,     \* history: the store before the last call
    last,    \* history: the last call, its arguments and what it returned
    first,   \* history: the call before the last, kept when the two form a pair
    pre2     \* history: the store before that first call of the pair

vars == <<store, pre, last, first, pre2>>

\* Option<T> is a sequence of length 0 (None) or 1 (Some).
None == <<>>
Some(x) == <<x>>

\* A node is its adjacency list; any other payload is opaque to the contract.
MkNode(adj) == [adj |-> adj]

EmptyStore == <<>>

\* --------------------------------------------------- Settable<V> for Vec<V>
\* A membership test that looks at the last element only.
contains_last(v, val) == Len(v) > 0 /\ v[Len(v)] = val

\* slice::contains
contains(v, val) == \E i \in 1..Len(v) : v[i] = val

\* Settable::add with the membership test dropped: always pushes.
Settable_add_push(v, val) == Append(v, val)

\* Settable::add
Settable_add(v, val) == IF ~contains(v, val) THEN Append(v, val) ELSE v

\* iter().position(|i| *i == *val): index of the first match, 0 for None.
position(v, val) ==
    IF \E i \in 1..Len(v) : v[i] = val
    THEN CHOOSE i \in 1..Len(v) : v[i] = val /\ \A j \in 1..(i-1) : v[j] # val
    ELSE 0

\* Vec::swap_remove(index): the last element takes the removed one's place.
Vec_swap_remove(v, index) ==
    [i \in 1..(Len(v) - 1) |-> IF i = index THEN v[Len(v)] ELSE v[i]]

\* Vec::remove(index): the later elements shift one place to the left.
Vec_remove(v, index) ==
    [i \in 1..(Len(v) - 1) |-> IF i < index THEN v[i] ELSE v[i + 1]]

\* ------------------------------------------- Mappable<K,V> for HashMap<K,V>
Mappable_contains_key(s, key) == key \in DOMAIN s

Mappable_get(s, key) == IF key \in DOMAIN s THEN Some(s[key]) ELSE None

\* HashMap::insert: upsert, returns the previous value.
Mappable_add(s, key, value) ==
    [store |-> [k \in DOMAIN s \cup {key} |-> IF k = key THEN value ELSE s[k]],
     ret   |-> Mappable_get(s, key)]

\* A removal that also drops the key from every other adjacency list.
Mappable_remove_cascade(s, key) ==
    [store |-> [k \in DOMAIN s \ {key} |->
                   MkNode(SelectSeq(s[k].adj, LAMBDA x : x # key))],
     ret   |-> Mappable_get(s, key)]

\* HashMap::remove
Mappable_remove(s, key) ==
    [store |-> [k \in DOMAIN s \ {key} |-> s[k]],
     ret   |-> Mappable_get(s, key)]

\* ------------------------------------------------------------ Cluster<K,N>
\* get_adj_mut: the adjacency list of the node at key, None if no such node.
get_adj_mut(s, key) == IF key \in DOMAIN s THEN Some(s[key].adj) ELSE None

\* Writing through the mutable view returned by get_adj_mut.
set_adj(s, key, adj) == [s EXCEPT ![key] = MkNode(adj)]

\* new_key: the keys the generator may return, those not used in the store.
new_key(s) == Keys \ DOMAIN s

Ok(s) == [store |-> s, ok |-> TRUE, err |-> ""]
Err(s, detail) == [store |-> s, ok |-> FALSE, err |-> detail]

\* Cluster::add with a default node stored in place of the one given.
Cluster_add_default(s, key, node) == Mappable_add(s, key, MkNode(<<>>)).store

\* Cluster::add, for the key new_key returned.
Cluster_add(s, key, node) == Mappable_add(s, key, node).store

\* add_edge that also demands the destination node.
add_edge_both(s, src, dst) ==
    IF get_adj_mut(s, src) = None \/ get_adj_mut(s, dst) = None
    THEN Err(s, ErrAddEdge)
    ELSE Ok(set_adj(s, src, Settable_add(s[src].adj, dst)))

\* add_edge
add_edge(s, src, dst) ==
    IF get_adj_mut(s, src) = None
    THEN Err(s, ErrAddEdge)
    ELSE Ok(set_adj(s, src, Settable_add(s[src].adj, dst)))

\* remove_edge that reports success when the source node is missing.
remove_edge_lenient(s, src, dst) ==
    IF get_adj_mut(s, src) = None
    THEN Ok(s)
    ELSE LET index == position(s[src].adj, dst)
         IN  IF index # 0 THEN Ok(set_adj(s, src, Vec_remove(s[src].adj, index)))
                          ELSE Ok(s)

\* remove_edge
remove_edge(s, src, dst) ==
    IF get_adj_mut(s, src) = None
    THEN Err(s, ErrRemoveEdge)
    ELSE LET index == position(s[src].adj, dst)
         IN  IF index # 0 THEN Ok(set_adj(s, src, Vec_remove(s[src].adj, index)))
                          ELSE Ok(s)

\* add_doubly_edge with the two halves in the other order.
add_doubly_edge_swapped(s, src, dst) ==
    LET r1 == add_edge(s, dst, src)
    IN  IF ~r1.ok THEN r1 ELSE add_edge(r1.store, src, dst)

\* add_doubly_edge whose second half repeats the first.
add_doubly_edge_oneway(s, src, dst) ==
    LET r1 == add_edge(s, src, dst)
    IN  IF ~r1.ok THEN r1 ELSE add_edge(r1.store, src, dst)

\* add_doubly_edge: (src,dst) then (dst,src), `?` returning the first error.
add_doubly_edge(s, src, dst) ==
    LET r1 == add_edge(s, src, dst)
    IN  IF ~r1.ok THEN r1 ELSE add_edge(r1.store, dst, src)

\* remove_doubly_edge whose second half repeats the first.
remove_doubly_edge_oneway(s, src, dst) ==
    LET r1 == remove_edge(s, src, dst)
    IN  IF ~r1.ok THEN r1 ELSE remove_edge(r1.store, src, dst)

\* remove_doubly_edge: (src,dst) then (dst,src).
remove_doubly_edge(s, src, dst) ==
    LET r1 == remove_edge(s, src, dst)
    IN  IF ~r1.ok THEN r1 ELSE remove_edge(r1.store, dst, src)

\* ---------------------------------------------------------------- helpers
RECURSIVE SumLen(_, _)
SumLen(s, ks) ==
    IF ks = {} THEN 0
    ELSE LET k == CHOOSE x \in ks : TRUE
         IN  Len(s[k].adj) + SumLen(s, ks \ {k})

\* Total number of adjacency entries in the store.
Edges(s) == SumLen(s, DOMAIN s)

Count(v, val) == Cardinality({i \in 1..Len(v) : v[i] = val})

Has(v, val) == Count(v, val) > 0

NoDup(v) == \A i, j \in 1..Len(v) : v[i] = v[j] => i = j

\* v without its entries equal to val, the others in their order.
Others(v, val) == SelectSeq(v, LAMBDA x : x # val)

\* All sequences over S of length at most n.
SeqUpTo(S, n) == UNION {[1..m -> S] : m \in 0..n}

\* A call: its name, arguments, and result.
Call(op, a, b, ok, err, val) ==
    [op |-> op, a |-> a, b |-> b, ok |-> ok, err |-> err, val |-> val]

NoCall == Call("none", 0, 0, TRUE, "", None)

\* The call (op, a, b) repeats an add_edge, or undoes an add_doubly_edge,
\* that was the last call.
IsPair(op, a, b) ==
    /\ last.a = a
    /\ last.b = b
    /\ \/ op = "add_edge" /\ last.op = "add_edge"
       \/ op = "remove_doubly_edge" /\ last.op = "add_doubly_edge"

\* The history after a call.
Record(call) ==
    /\ pre' = store
    /\ last' = call
    /\ first' = IF IsPair(call.op, call.a, call.b) THEN last ELSE NoCall
    /\ pre2' = IF IsPair(call.op, call.a, call.b) THEN pre ELSE EmptyStore

\* ---------------------------------------------------------------- actions
Init ==
    /\ store = EmptyStore
    /\ pre = EmptyStore
    /\ last = NoCall
    /\ first = NoCall
    /\ pre2 = EmptyStore

\* Cluster::add of a node whose adjacency list is duplicate-free.
Add ==
    \E adj \in SeqUpTo(Keys, MaxEdges) : \E key \in new_key(store) :
        /\ NoDup(adj)
        /\ Edges(store) + Len(adj) <= MaxEdges
        /\ store' = Cluster_add(store, key, MkNode(adj))
        /\ Record(Call("add", key, 0, TRUE, "", Some(MkNode(adj))))

\* Cluster::add of a node with any adjacency list.
AddAny ==
    \E adj \in SeqUpTo(Keys, MaxEdges) : \E key \in new_key(store) :
        /\ Edges(store) + Len(adj) <= MaxEdges
        /\ store' = Cluster_add(store, key, MkNode(adj))
        /\ Record(Call("add", key, 0, TRUE, "", Some(MkNode(adj))))

\* Mappable::remove
Remove ==
    \E key \in Keys :
        LET r == Mappable_remove(store, key)
        IN  /\ store' = r.store
            /\ Record(Call("remove", key, 0, TRUE, "", r.ret))

AddEdge ==
    \E src \in Keys : \E dst \in Keys :
        LET r == add_edge(store, src, dst)
        IN  /\ Edges(r.store) <= MaxEdges
            /\ store' = r.store
            /\ Record(Call("add_edge", src, dst, r.ok, r.err, None))

RemoveEdge ==
    \E src \in Keys : \E dst \in Keys :
        LET r == remove_edge(store, src, dst)
        IN  /\ store' = r.store
            /\ Record(Call("remove_edge", src, dst, r.ok, r.err, None))

AddDoublyEdge ==
    \E src \in Keys : \E dst \in Keys :
        LET r == add_doubly_edge(store, src, dst)
        IN  /\ Edges(r.store) <= MaxEdges
            /\ store' = r.store
            /\ Record(Call("add_doubly_edge", src, dst, r.ok, r.err, None))

RemoveDoublyEdge ==
    \E src \in Keys : \E dst \in Keys :
        LET r == remove_doubly_edge(store, src, dst)
        IN  /\ store' = r.store
            /\ Record(Call("remove_doubly_edge", src, dst, r.ok, r.err, None))

\* The contract used with nodes whose adjacency lists are duplicate-free.
Next ==
    \/ Add
    \/ Remove
    \/ AddEdge
    \/ RemoveEdge
    \/ AddDoublyEdge
    \/ RemoveDoublyEdge

Spec == Init /\ [][Next]_vars

\* The contract used with nodes carrying any adjacency list.
NextAny ==
    \/ AddAny
    \/ Remove
    \/ AddEdge
    \/ RemoveEdge
    \/ AddDoublyEdge
    \/ RemoveDoublyEdge

SpecAny == Init /\ [][NextAny]_vars

\* A store whose nodes all have empty adjacency lists, then doubly-edge calls
\* between existing nodes only.
InitDoubly ==
    /\ store \in {[k \in D |-> MkNode(<<>>)] : D \in SUBSET Keys}
    /\ pre = store
    /\ last = NoCall
    /\ first = NoCall
    /\ pre2 = EmptyStore

AddDoublyEdgeLive ==
    \E src \in DOMAIN store : \E dst \in DOMAIN store :
        LET r == add_doubly_edge(store, src, dst)
        IN  /\ Edges(r.store) <= MaxEdges
            /\ store' = r.store
            /\ Record(Call("add_doubly_edge", src, dst, r.ok, r.err, None))

RemoveDoublyEdgeLive ==
    \E src \in DOMAIN store : \E dst \in DOMAIN store :
        LET r == remove_doubly_edge(store, src, dst)
        IN  /\ store' = r.store
            /\ Record(Call("remove_doubly_edge", src, dst, r.ok, r.err, None))

NextDoubly ==
    \/ AddDoublyEdgeLive
    \/ RemoveDoublyEdgeLive

SpecDoubly == InitDoubly /\ [][NextDoubly]_vars

TypeOK ==
    /\ DOMAIN store \subseteq Keys
    /\ \A k \in DOMAIN store : store[k].adj \in SeqUpTo(Keys, MaxEdges)
    /\ Edges(store) <= MaxEdges
    /\ first.op \in {"none", "add_edge", "add_doubly_edge"}

\* ------------------------------------------------------------- properties
\* Shorthands over the history: the last call was op, made on a store in
\* which its first argument was (was not) a key.
Did(op) == last.op = op
SrcLive == last.a \in DOMAIN pre
DstLive == last.b \in DOMAIN pre

\* The last two calls were add_edge(a, b) twice.
AddEdgeTwice == first.op = "add_edge" /\ last.op = "add_edge"
\* The last two calls were add_doubly_edge(a, b) then remove_doubly_edge(a, b).
DoublyRoundTrip == first.op = "add_doubly_edge" /\ last.op = "remove_doubly_edge"

\* C1: after any sequence of Cluster::add (of nodes with duplicate-free
\* adjacency lists), remove and the four edge calls, successful or failing,
\* every node of the store has each destination key at most once in its list.
C1_NoDuplicateEdges == \A k \in DOMAIN store : NoDup(store[k].adj)

\* A second add_edge(a, b) succeeded on a node that holds two entries or more.
C1_Witness ==
    /\ AddEdgeTwice
    /\ last.ok
    /\ Len(store[last.a].adj) >= 2

\* C2: add_edge(src, dst) and remove_edge(src, dst) with src not a key of the
\* store return the MissingNode error, whether or not dst exists, and leave the
\* store (key set and every adjacency list) as it was.
C2_MissingSourceFails ==
    /\ (Did("add_edge") /\ ~SrcLive) =>
           (~last.ok /\ last.err = ErrAddEdge /\ store = pre)
    /\ (Did("remove_edge") /\ ~SrcLive) =>
           (~last.ok /\ last.err = ErrRemoveEdge /\ store = pre)

\* remove_edge(src, dst) was called with src missing while dst exists and has
\* entries of its own, src among them.
C2_Witness ==
    /\ Did("remove_edge")
    /\ ~SrcLive
    /\ DstLive
    /\ Has(pre[last.b].adj, last.a)

\* C3: add_edge(src, dst) twice in succession, src existing with a
\* duplicate-free list: both calls succeed, dst occurs exactly once in src's
\* list, the second call changes nothing, and the first call kept the earlier
\* entries in order, appending dst only if it was not there.
C3_AddEdgeIdempotent ==
    (AddEdgeTwice /\ last.a \in DOMAIN pre2 /\ NoDup(pre2[last.a].adj)) =>
        /\ first.ok
        /\ last.ok
        /\ Count(store[last.a].adj, last.b) = 1
        /\ store = pre
        /\ pre[last.a].adj = IF Has(pre2[last.a].adj, last.b)
                               THEN pre2[last.a].adj
                               ELSE pre2[last.a].adj \o <<last.b>>
        /\ \A k \in DOMAIN pre2 \ {last.a} : pre[k] = pre2[k]
        /\ DOMAIN pre = DOMAIN pre2

\* add_edge(a, b) was called twice on a node holding another entry, dst new.
C3_Witness ==
    /\ AddEdgeTwice
    /\ last.a \in DOMAIN pre2
    /\ NoDup(pre2[last.a].adj)
    /\ pre2[last.a].adj # <<>>
    /\ ~Has(pre2[last.a].adj, last.b)

\* C4 as stated: add_doubly_edge(a, b) then remove_doubly_edge(a, b), a and b
\* both existing beforehand, restores the adjacency lists of a and b whatever
\* edges between them already existed.
C4_RoundTripAlways ==
    (DoublyRoundTrip /\ last.a \in DOMAIN pre2 /\ last.b \in DOMAIN pre2) =>
        /\ store[last.a].adj = pre2[last.a].adj
        /\ store[last.b].adj = pre2[last.b].adj

\* C4 amended: add_doubly_edge(a, b) then remove_doubly_edge(a, b), a and b both
\* existing beforehand and neither edge a->b nor b->a present beforehand,
\* restores the adjacency lists of a and b (a = b included).
C4_RoundTripFresh ==
    (/\ DoublyRoundTrip
     /\ last.a \in DOMAIN pre2
     /\ last.b \in DOMAIN pre2
     /\ ~Has(pre2[last.a].adj, last.b)
     /\ ~Has(pre2[last.b].adj, last.a)) =>
        /\ first.ok
        /\ last.ok
        /\ store[last.a].adj = pre2[last.a].adj
        /\ store[last.b].adj = pre2[last.b].adj

\* The round trip was made between two different nodes with no edge between
\* them, one of which held another entry.
C4_Witness ==
    /\ DoublyRoundTrip
    /\ last.a # last.b
    /\ last.a \in DOMAIN pre2
    /\ last.b \in DOMAIN pre2
    /\ ~Has(pre2[last.a].adj, last.b)
    /\ ~Has(pre2[last.b].adj, last.a)
    /\ pre2[last.a].adj # <<>>
    /\ Has(pre[last.a].adj, last.b)
    /\ Has(pre[last.b].adj, last.a)

C5_WitnessRemove ==
    /\ Did("remove_doubly_edge")
    /\ SrcLive
    /\ ~DstLive
    /\ Has(pre[last.a].adj, last.b)
    /\ ~last.ok

\* C6 as stated: remove_edge(src, dst) with src existing, whatever list src
\* holds, succeeds, leaves no dst in src's list, keeps every other entry in its
\* relative order, and changes nothing if dst was absent.
C6_RemoveEdgeRemovesAll ==
    (Did("remove_edge") /\ SrcLive) =>
        /\ last.ok
        /\ ~Has(store[last.a].adj, last.b)
        /\ Others(store[last.a].adj, last.b) = Others(pre[last.a].adj, last.b)
        /\ ~Has(pre[last.a].adj, last.b) => store[last.a].adj = pre[last.a].adj

\* C6 amended: remove_edge(src, dst) with src existing, whatever list src holds,
\* succeeds and removes the first occurrence of dst only: every entry other than
\* that one stays, in the previous relative order, so dst no longer occurs if it
\* occurred at most once; if dst was absent the list is unchanged.
C6_RemoveEdgeRemovesFirst ==
    (Did("remove_edge") /\ SrcLive) =>
        LET old == pre[last.a].adj
            new == store[last.a].adj
        IN  /\ last.ok
            /\ IF Has(old, last.b)
               THEN \E i \in 1..Len(old) :
                        /\ old[i] = last.b
                        /\ \A j \in 1..(i - 1) : old[j] # last.b
                        /\ new = SubSeq(old, 1, i - 1) \o SubSeq(old, i + 1, Len(old))
               ELSE new = old
            /\ Count(old, last.b) <= 1 => ~Has(new, last.b)
            /\ Others(new, last.b) = Others(old, last.b)

\* remove_edge took the first of three entries, two different ones following.
C6_Witness ==
    /\ Did("remove_edge")
    /\ SrcLive
    /\ Len(pre[last.a].adj) = 3
    /\ pre[last.a].adj[1] = last.b
    /\ pre[last.a].adj[2] # pre[last.a].adj[3]

C8_AddStoresNode ==
    Did("add") =>
        /\ last.a \in DOMAIN store
        /\ <<store[last.a]>> = last.val
        /\ last.a \notin DOMAIN pre
        /\ \A k \in DOMAIN pre : k \in DOMAIN store /\ store[k] = pre[k]
        /\ DOMAIN store = DOMAIN pre \cup {last.a}

\* A node with entries was added to a store that already held a node.
C8_Witness ==
    /\ Did("add")
    /\ pre # EmptyStore
    /\ last.val[1].adj # <<>>

\* C9: remove(key) with key existing returns the node stored at key and deletes
\* that key only, every other node keeping its list, entries equal to key
\* included; with key absent it returns None and the store is unchanged.
C9_RemoveDoesNotCascade ==
    Did("remove") =>
        IF SrcLive
        THEN /\ last.val = <<pre[last.a]>>
             /\ DOMAIN store = DOMAIN pre \ {last.a}
             /\ \A k \in DOMAIN store : store[k] = pre[k]
        ELSE /\ last.val = None
             /\ store = pre

\* A node was removed while another node's list pointed to it.
C9_Witness ==
    /\ Did("remove")
    /\ SrcLive
    /\ \E k \in DOMAIN store : Has(store[k].adj, last.a)

\* C10: from a store whose nodes all have empty lists, after any sequence of
\* add_doubly_edge / remove_doubly_edge calls between existing nodes, b is in
\* a's list if and only if a is in b's list, for all keys a, b of the store.
C10_Symmetric ==
    \A a \in DOMAIN store : \A b \in DOMAIN store :
        Has(store[a].adj, b) <=> Has(store[b].adj, a)

\* A doubly edge was removed while another one, between two different nodes,
\* stays in both directions.
C10_Witness ==
    /\ Did("remove_doubly_edge")
    /\ store # pre
    /\ \E a \in DOMAIN store : \E b \in DOMAIN store :
           a # b /\ Has(store[a].adj, b) /\ Has(store[b].adj, a)
====
